---- MODULE Spec2Model ----
(***************************************************************************)
(* Model of upload_rwgps.py: the orchestration loop of main(), the         *)
(* RWGPSClient methods it calls (ensure_auth, upload_trip_from_file,       *)
(* poll_task_for_trip, upload_photo, upload_media_for_trip) and the        *)
(* uploaded ledger (.uploaded_rwgps.log) shared by successive runs.        *)
(*                                                                         *)
(* Strings are sequences of one-character strings, so that the suffix      *)
(* stripping of file names and the strip() of ledger lines are computed    *)
(* the way the code computes them.                                         *)
(*                                                                         *)
(* Spec is one run of main, SpecLive the same run with its steps taken    *)
(* (weak fairness), SpecRuns successive runs over one ledger, and          *)
(* SpecFunctions the functions load_activity_metadata and                  *)
(* infer_activity_id_from_filename applied on their own to bounded inputs. *)
(***************************************************************************)
EXTENDS Integers, Sequences, FiniteSets, TLC

\* ------------------------------------------------------------------ bounds
\* Largest number of entries of activities/cycling in a modelled world.
MaxFiles == 2
\* Number of program runs that share one ledger.
MaxRuns == 2
\* Largest --poll-timeout (in clock units) a run is started with.
MaxPollTimeout == 2
\* Longest time one poll iteration (request plus sleep) may take.
MaxTickTime == 2
\* Trip identifiers the remote service hands out are 1..MaxTripId.
MaxTripId == 1
\* Largest number of rows of an activities.csv given to load_activity_metadata
\* on its own.
MaxRows == 2

\* --------------------------------------------------------- program constants
\* Sentinel returned by the poller for a duplicate task.
DUPLICATE_TRIP == -2
\* Sentinel returned by upload_trip_from_file in dry-run mode.
DRY_RUN_TRIP == -1

\* Python's None, and an integer return value, as values TLC can compare.
None == <<>>
Some(n) == <<n>>

\* ------------------------------------------------------------------ strings
Alphabet == {" ", ".", "/", "2", "4", "5", "c", "f", "g", "i", "n", "p", "t", "x", "z"}

\* Code points, for the ordering sorted() uses.
Code(c) ==
    CASE c = " " -> 32 [] c = "." -> 46 [] c = "/" -> 47 [] c = "2" -> 50
      [] c = "4" -> 52
      [] c = "5" -> 53 [] c = "c" -> 99 [] c = "f" -> 102 [] c = "g" -> 103
      [] c = "i" -> 105 [] c = "n" -> 110 [] c = "p" -> 112 [] c = "t" -> 116
      [] c = "x" -> 120 [] c = "z" -> 122

IsSpace(c) == c = " "

Min(a, b) == IF a < b THEN a ELSE b

\* str.endswith
EndsWith(s, suf) ==
    /\ Len(s) >= Len(suf)
    /\ SubSeq(s, Len(s) - Len(suf) + 1, Len(s)) = suf

\* s[:-len(suf)]
DropLast(s, n) == SubSeq(s, 1, Len(s) - n)

RECURSIVE LStrip(_)
LStrip(s) ==
    IF s # <<>> /\ IsSpace(Head(s)) THEN LStrip(Tail(s)) ELSE s

RECURSIVE RStrip(_)
RStrip(s) ==
    IF s # <<>> /\ IsSpace(s[Len(s)]) THEN RStrip(DropLast(s, 1)) ELSE s

\* str.strip()
Strip(s) == RStrip(LStrip(s))

\* a < b for Python strings (lexicographic by code point)
StrLess(a, b) ==
    \E i \in 1..(Min(Len(a), Len(b)) + 1) :
        /\ \A j \in 1..(i - 1) : a[j] = b[j]
        /\ \/ i > Len(a) /\ i <= Len(b)
           \/ i <= Len(a) /\ i <= Len(b) /\ Code(a[i]) < Code(b[i])

\* sorted(S) for a set of strings
RECURSIVE Sorted(_)
Sorted(S) ==
    IF S = {} THEN <<>>
    ELSE LET m == CHOOSE x \in S : \A y \in S \ {x} : StrLess(x, y)
         IN  <<m>> \o Sorted(S \ {m})

\* Position of the last occurrence of character c in s, 0 when absent (str.rfind + 1).
RECURSIVE RFind(_, _)
RFind(s, c) ==
    IF s = <<>> THEN 0
    ELSE IF s[Len(s)] = c THEN Len(s)
    ELSE RFind(DropLast(s, 1), c)

\* pathlib's PurePath.suffix of a file name
Suffix(name) ==
    LET i == RFind(name, ".")
    IN  IF 1 < i /\ i < Len(name) THEN SubSeq(name, i, Len(name)) ELSE <<>>

\* pathlib's PurePath.name of a path string
BaseName(path) == SubSeq(path, RFind(path, "/") + 1, Len(path))

Range(f) == {f[i] : i \in DOMAIN f}

\* --------------------------------------------------------------- extensions
FIT == <<".", "f", "i", "t">>
GPX == <<".", "g", "p", "x">>
TCX == <<".", "t", "c", "x">>
GZ == <<".", "g", "z">>
DoubleExts == <<FIT \o GZ, GPX \o GZ, TCX \o GZ>>
SingleExts == <<FIT, GPX, TCX>>

\* The first extension of exts, from position i on, that s ends with; <<>> if none.
RECURSIVE FirstExt(_, _, _)
FirstExt(s, exts, i) ==
    IF i > Len(exts) THEN <<>>
    ELSE IF EndsWith(s, exts[i]) THEN exts[i]
    ELSE FirstExt(s, exts, i + 1)

\* The stem before the first dot, whatever follows it.
infer_activity_id_from_filename_FirstDot(filename) ==
    LET i == CHOOSE k \in 1..(Len(filename) + 1) :
                 /\ k = Len(filename) + 1 \/ filename[k] = "."
                 /\ \A j \in 1..(k - 1) : filename[j] # "."
    IN  SubSeq(filename, 1, i - 1)

infer_activity_id_from_filename(filename) ==
    LET d == FirstExt(filename, DoubleExts, 1)
        s == FirstExt(filename, SingleExts, 1)
    IN  IF d # <<>> THEN DropLast(filename, Len(d))
        ELSE IF s # <<>> THEN DropLast(filename, Len(s))
        ELSE filename

\* The filter of discover_activity_files on one directory entry.
IsActivityFile(name) ==
    \/ Suffix(name) \in {FIT, GPX, TCX, GZ}
    \/ \E k \in DOMAIN DoubleExts : EndsWith(name, DoubleExts[k])

discover_activity_files(directory) ==
    SelectSeq(Sorted(directory), IsActivityFile)

\* ------------------------------------------------------------- the ledger
\* The ledger file is the sequence of its lines; no identifier of the model
\* holds a line break, so appending activity_id + "\n" appends one line.
append_uploaded(file, activity_id) == Append(file, activity_id)

load_uploaded_set(file) ==
    {Strip(file[i]) : i \in DOMAIN file} \ {<<>>}

\* ------------------------------------------------------------ the metadata
\* A row of activities.csv: Activity ID, Filename, Media (the name and the
\* description are payload the orchestration never branches on).
Row(id, filename, media) == [id |-> id, filename |-> filename, media |-> media]

\* dict.__setitem__ in the place of setdefault: a later row overrides.
SetDefault_Overwrite(m, k, v) == (k :> v) @@ m

\* dict.setdefault
SetDefault(m, k, v) == IF k \in DOMAIN m THEN m ELSE m @@ (k :> v)

\* The body of the loop over the rows of load_activity_metadata.
IndexRow(mapping, row) ==
    LET act_id == Strip(row.id)
        meta == [activity_id |-> act_id, media_paths |-> row.media]
        filename == Strip(row.filename)
        base == BaseName(filename)
        ext == FirstExt(base, DoubleExts \o SingleExts, 1)
        file_id == DropLast(base, Len(ext))
        m1 == SetDefault(mapping, act_id, meta)
    IN  IF act_id = <<>> THEN mapping
        ELSE IF filename # <<>> /\ ext # <<>> /\ file_id # <<>>
             THEN SetDefault(m1, file_id, meta)
             ELSE m1

RECURSIVE IndexRows(_, _, _)
IndexRows(mapping, rows, i) ==
    IF i > Len(rows) THEN mapping
    ELSE IndexRows(IndexRow(mapping, rows[i]), rows, i + 1)

load_activity_metadata(rows) == IndexRows(<<>>, rows, 1)

\* ---------------------------------------------------------------- the world
\* Sequences of characters for the names used below.
Id4 == <<"4">>
Id4Space == <<"4", " ">>
Id44 == <<"4", "4">>
Id5 == <<"5">>
Id42 == <<"4", "2">>

\* Names a directory activities/cycling may hold: two files of identifier 4, a
\* file whose stem ends in a blank, a file no row describes, a file that is
\* no activity.
FileNames ==
    { Id4 \o FIT, Id4 \o GPX, Id4Space \o FIT, Id5 \o FIT \o GZ,
      <<"n">> \o <<".", "t", "x", "t">> }

Directories == {d \in SUBSET FileNames : Cardinality(d) <= MaxFiles}

\* Media files present under the project root.
ExistingMedia == {"p1.jpg", "p3.jpg"}

\* activities.csv: the row of activity 4 (file name with a directory and a
\* double extension, three media of which one is missing) and a row whose file
\* name has the stem "4 ".
CsvRows ==
    << Row(Id4, <<"c", "/">> \o Id4 \o FIT \o GZ, <<"p1.jpg", "p2.jpg", "p3.jpg">>),
       Row(Id44, Id4Space \o FIT, <<>>) >>

\* Inputs of load_activity_metadata on its own: rows without an identifier,
\* rows whose file stem is the identifier of another row, file names with a
\* directory, with a double extension, with nothing before the extension.
RowIds == {<<>>, Id4, Id44, Id42}
RowFilenames ==
    { <<>>, Id4 \o FIT, <<"c", "/">> \o Id4 \o FIT \o GZ, Id42 \o FIT \o GZ, FIT }
CsvFiles ==
    UNION { [1..n -> {Row(i, f, <<>>) : i \in RowIds, f \in RowFilenames}]
            : n \in 0..MaxRows }
\* Files on disk looked up in the index of such an activities.csv.
DiskNames == {Id42 \o FIT, Id4 \o GPX}

\* Inputs of infer_activity_id_from_filename on its own: every stem with
\* every ending, the endings being the known extensions, their doubles in
\* both orders, an unknown extension, an extension without its dot.
NameStems == {<<>>, Id4, <<"4", ".", "5">>}
NameEndings ==
    { <<>>, FIT, GPX, TCX, GZ, FIT \o GZ, GPX \o GZ, TCX \o GZ, GZ \o FIT,
      FIT \o FIT, GPX \o TCX, <<".", "t", "x", "t">>, <<"f", "i", "t">> }
Names == {st \o e : st \in NameStems, e \in NameEndings}

\* ------------------------------------------------------ the remote service
AuthResponses == {"ok", "non200", "no_token", "exception"}
\* "unauthorized" is the status 401 of a service that rejects the token.
UploadResponses ==
    {"exception", "non2xx", "unauthorized", "nonjson", "no_task", "task"}
\* A status response: its kind, and the trip id when the task names a trip.
\* "nonobject" is a body that parses as JSON but is no object (a list, null).
StatusKinds ==
    { "exception", "non200", "nonjson", "nonobject", "empty", "success_trip",
      "success_notrip", "duplicate", "error", "failed", "other" }
PhotoResponses == {"ok", "non2xx", "exception"}
TripIds == 1..MaxTripId
StatusResponses ==
    {[kind |-> k, trip |-> None] : k \in StatusKinds \ {"success_trip"}}
        \cup {[kind |-> "success_trip", trip |-> Some(t)] : t \in TripIds}

\* The auth_token attribute of the client.
ENV_TOKEN == "RWGPS_AUTH_TOKEN"
SERVER_TOKEN == "auth_token of users/current.json"
DUMMY_TOKEN == "DUMMY_TOKEN"
NoToken == "None"

\* ------------------------------------------------------------------- state
VARIABLES
    dirEntries,       \* the entries of activities/cycling
    csvFile,          \* the rows of activities.csv
    row_idx,          \* load_activity_metadata: rows the reader has yielded
    mapping,          \* load_activity_metadata: its mapping
    filename,         \* infer_activity_id_from_filename: its argument
    inferred_id,           \* its return value, None before the call
    ledgerFile,       \* the lines of .uploaded_rwgps.log
    runsLeft,         \* number of runs still to be started
    config,           \* the environment and the arguments of the current run
    auth_token,       \* client.auth_token
    activity_meta,    \* main's activity_meta
    already_uploaded, \* main's already_uploaded
    files,            \* main's files
    idx,              \* position of the for loop in files (1-based)
    successes, skipped, errors,
    exit_code,        \* main's return value, None while it runs
    pc,               \* where the run is
    trip_id,          \* the value upload_trip_from_file returned
    elapsed,          \* time.time() minus the time the poll began, read at the
                      \* loop test and capped at the timeout (the test is all that reads it)
    poll_count,       \* poll_task_for_trip's poll_count
    last_response,    \* the kind of the latest status response of the task
    media_list,       \* upload_media_for_trip's media_list
    media_idx,        \* position of its loop in media_list
    photo_success,    \* its success counter
    \* history
    outcome,          \* how the pipeline of the latest activity ended
    netIds,           \* identifiers a request was sent for in this run
    authReqs,         \* authentication requests sent in this run
    authOks,          \* of which successful
    tripReqs,         \* trip submissions sent for the latest activity
    photoReqs,        \* media requests sent for the latest activity
    ledgerAtStart,    \* the ledger file as the run found it
    handledRun,       \* identifiers the poller ended in Success or Duplicate, this run
    handledEver       \* the same, in the earlier runs without --dry-run and --force

\* What no step of main changes.
world == <<dirEntries, csvFile, row_idx, mapping, filename, inferred_id>>
mainVars == <<config, activity_meta, already_uploaded, files>>
counters == <<successes, skipped, errors>>
pollVars == <<elapsed, poll_count, last_response>>
mediaVars == <<media_list, media_idx, photo_success>>
authHist == <<authReqs, authOks>>
runHist == <<runsLeft, ledgerAtStart, handledEver>>
vars ==
    << dirEntries, csvFile, row_idx, mapping, filename, inferred_id, ledgerFile,
       runsLeft, config, auth_token, activity_meta,
       already_uploaded, files, idx, successes, skipped, errors, exit_code, pc,
       trip_id, elapsed, poll_count, last_response, media_list, media_idx,
       photo_success, outcome, netIds, authReqs, authOks, tripReqs, photoReqs,
       ledgerAtStart, handledRun, handledEver >>

\* The configurations a run may be started with. target_ids is {} when --only
\* is absent (main tests its truth value only); its members are stripped.
Configs ==
    [ api_key : BOOLEAN, email_password : BOOLEAN, auth_token : {NoToken, ENV_TOKEN},
      dry_run : BOOLEAN, force : BOOLEAN, target_ids : {{}, {Id4}, {Id5}},
      poll_timeout : 0..MaxPollTimeout ]

NoConfig ==
    [ api_key |-> FALSE, email_password |-> FALSE, auth_token |-> NoToken,
      dry_run |-> FALSE, force |-> FALSE, target_ids |-> {}, poll_timeout |-> 0 ]

\* The state before a run, nothing of the program in memory.
Idle ==
    /\ config = NoConfig
    /\ auth_token = NoToken
    /\ activity_meta = <<>>
    /\ already_uploaded = {}
    /\ files = <<>>
    /\ idx = 0
    /\ successes = 0 /\ skipped = 0 /\ errors = 0
    /\ exit_code = None
    /\ pc = "idle"
    /\ trip_id = None
    /\ elapsed = 0 /\ poll_count = 0 /\ last_response = "none"
    /\ media_list = <<>> /\ media_idx = 0 /\ photo_success = 0
    /\ outcome = "none"
    /\ netIds = {}
    /\ authReqs = 0 /\ authOks = 0
    /\ tripReqs = 0 /\ photoReqs = 0
    /\ handledRun = {}
    /\ handledEver = {}

\* Ledger files a run may find: none, or the lines earlier runs wrote.
StartLedgers == {<<>>, <<Id4>>, <<Id4Space>>}

\* The functions checked on their own are not running.
NoCall ==
    /\ row_idx = 0 /\ mapping = <<>>
    /\ filename = <<>> /\ inferred_id = None

\* One run, over any directory and any of the ledgers.
Init ==
    /\ dirEntries \in Directories
    /\ csvFile = CsvRows
    /\ NoCall
    /\ ledgerFile \in StartLedgers
    /\ ledgerAtStart = ledgerFile
    /\ runsLeft = 1
    /\ Idle

\* MaxRuns successive runs, the first of which finds no ledger.
InitRuns ==
    /\ dirEntries \in Directories
    /\ csvFile = CsvRows
    /\ NoCall
    /\ ledgerFile = <<>>
    /\ ledgerAtStart = ledgerFile
    /\ runsLeft = MaxRuns
    /\ Idle

\* ------------------------------------------------------------ RWGPSClient
\* ensure_auth without its first test: it authenticates again although a
\* token is held.
ensure_auth_AlwaysAuthenticates(token, cfg, resp) ==
    IF ~cfg.email_password
    THEN [token |-> token, raised |-> TRUE, sent |-> 0]
    ELSE IF cfg.dry_run
    THEN [token |-> DUMMY_TOKEN, raised |-> FALSE, sent |-> 0]
    ELSE IF resp = "ok"
    THEN [token |-> SERVER_TOKEN, raised |-> FALSE, sent |-> 1]
    ELSE [token |-> NoToken, raised |-> TRUE, sent |-> 1]

\* ensure_auth with the dry-run test moved before the test of the credentials.
ensure_auth_DryRunFirst(token, cfg, resp) ==
    IF token # NoToken
    THEN [token |-> token, raised |-> FALSE, sent |-> 0]
    ELSE IF cfg.dry_run
    THEN [token |-> DUMMY_TOKEN, raised |-> FALSE, sent |-> 0]
    ELSE IF ~cfg.email_password
    THEN [token |-> token, raised |-> TRUE, sent |-> 0]
    ELSE IF resp = "ok"
    THEN [token |-> SERVER_TOKEN, raised |-> FALSE, sent |-> 1]
    ELSE [token |-> NoToken, raised |-> TRUE, sent |-> 1]

\* ensure_auth on a client holding `token`, the authentication request (if one
\* is sent) answered by `resp`: the token held afterwards, whether the call
\* raised, and the number of requests sent.
ensure_auth(token, cfg, resp) ==
    IF token # NoToken
    THEN [token |-> token, raised |-> FALSE, sent |-> 0]
    ELSE IF ~cfg.email_password
    THEN [token |-> token, raised |-> TRUE, sent |-> 0]
    ELSE IF cfg.dry_run
    THEN [token |-> DUMMY_TOKEN, raised |-> FALSE, sent |-> 0]
    ELSE IF resp = "ok"
    THEN [token |-> SERVER_TOKEN, raised |-> FALSE, sent |-> 1]
    ELSE [token |-> NoToken, raised |-> TRUE, sent |-> 1]

\* The answers an authentication request of ensure_auth may get. When the call
\* sends none the answer is immaterial, and one stands for all.
AuthAnswers(token, cfg) ==
    IF token = NoToken /\ cfg.email_password /\ ~cfg.dry_run
    THEN AuthResponses
    ELSE {"ok"}

\* upload_trip_from_file without its dry-run test: the POST is sent anyway.
upload_trip_from_file_NoDryRun(token, cfg, authResp, readOk, upResp) ==
    LET a == ensure_auth(token, cfg, authResp)
        R(kind, ret, n) ==
            [ token |-> a.token, authSent |-> a.sent, authRaised |-> a.raised,
              tripSent |-> n, kind |-> kind, ret |-> ret ]
    IN  IF a.raised THEN R("raise", None, 0)
        ELSE IF ~readOk THEN R("raise", None, 0)
        ELSE IF upResp = "exception" THEN R("raise", None, 1)
        ELSE IF upResp \in {"non2xx", "unauthorized", "nonjson", "no_task"}
             THEN R("return", None, 1)
        ELSE R("poll", None, 1)

\* upload_trip_from_file with the exception of ensure_auth swallowed: the POST
\* is sent without a token.
upload_trip_from_file_IgnoresAuthError(token, cfg, authResp, readOk, upResp) ==
    LET a == ensure_auth(token, cfg, authResp)
        R(kind, ret, n) ==
            [ token |-> a.token, authSent |-> a.sent, authRaised |-> a.raised,
              tripSent |-> n, kind |-> kind, ret |-> ret ]
    IN  IF ~readOk THEN R("raise", None, 0)
        ELSE IF cfg.dry_run THEN R("return", Some(DRY_RUN_TRIP), 0)
        ELSE IF upResp = "exception" THEN R("raise", None, 1)
        ELSE IF upResp \in {"non2xx", "unauthorized", "nonjson", "no_task"}
             THEN R("return", None, 1)
        ELSE R("poll", None, 1)

\* upload_trip_from_file polling although the response names no task.
upload_trip_from_file_PollsWithoutTask(token, cfg, authResp, readOk, upResp) ==
    LET a == ensure_auth(token, cfg, authResp)
        R(kind, ret, n) ==
            [ token |-> a.token, authSent |-> a.sent, authRaised |-> a.raised,
              tripSent |-> n, kind |-> kind, ret |-> ret ]
    IN  IF a.raised THEN R("raise", None, 0)
        ELSE IF ~readOk THEN R("raise", None, 0)
        ELSE IF cfg.dry_run THEN R("return", Some(DRY_RUN_TRIP), 0)
        ELSE IF upResp = "exception" THEN R("raise", None, 1)
        ELSE IF upResp \in {"non2xx", "unauthorized", "nonjson"}
             THEN R("return", None, 1)
        ELSE R("poll", None, 1)

\* upload_trip_from_file up to the call of poll_task_for_trip: `readOk` says
\* whether the activity file could be opened (and decompressed), `upResp` is
\* the answer to POST trips.json. kind is "raise" (an exception leaves the
\* method), "return" (it returns ret) or "poll" (a task is queued).
upload_trip_from_file(token, cfg, authResp, readOk, upResp) ==
    LET a == ensure_auth(token, cfg, authResp)
        R(kind, ret, n) ==
            [ token |-> a.token, authSent |-> a.sent, authRaised |-> a.raised,
              tripSent |-> n, kind |-> kind, ret |-> ret ]
    IN  IF a.raised THEN R("raise", None, 0)
        ELSE IF ~readOk THEN R("raise", None, 0)
        ELSE IF cfg.dry_run THEN R("return", Some(DRY_RUN_TRIP), 0)
        ELSE IF upResp = "exception" THEN R("raise", None, 1)
        ELSE IF upResp \in {"non2xx", "unauthorized", "nonjson", "no_task"}
             THEN R("return", None, 1)
        ELSE R("poll", None, 1)

\* poll_iteration giving up when success is reported without a trip.
poll_iteration_NoTripIsFailure(cfg, resp) ==
    IF cfg.dry_run
    THEN [done |-> TRUE, ret |-> Some(DRY_RUN_TRIP), sent |-> 0, outcome |-> "DryRun",
          raised |-> FALSE]
    ELSE IF resp.kind = "success_trip"
    THEN [done |-> TRUE, ret |-> resp.trip, sent |-> 1, outcome |-> "Success",
          raised |-> FALSE]
    ELSE IF resp.kind = "duplicate"
    THEN [done |-> TRUE, ret |-> Some(DUPLICATE_TRIP), sent |-> 1,
          outcome |-> "Duplicate", raised |-> FALSE]
    ELSE IF resp.kind \in {"error", "failed", "success_notrip"}
    THEN [done |-> TRUE, ret |-> None, sent |-> 1, outcome |-> "Error",
          raised |-> FALSE]
    ELSE IF resp.kind = "nonobject"
    THEN [done |-> TRUE, ret |-> None, sent |-> 1, outcome |-> "Raised",
          raised |-> TRUE]
    ELSE [done |-> FALSE, ret |-> None, sent |-> 1, outcome |-> "Processing",
          raised |-> FALSE]

\* One iteration of the while loop of poll_task_for_trip, the status request
\* answered by `resp`. On a body that is no JSON object data.get raises
\* AttributeError, which leaves the loop and the method (raised).
poll_iteration(cfg, resp) ==
    IF cfg.dry_run
    THEN [done |-> TRUE, ret |-> Some(DRY_RUN_TRIP), sent |-> 0, outcome |-> "DryRun",
          raised |-> FALSE]
    ELSE IF resp.kind = "success_trip"
    THEN [done |-> TRUE, ret |-> resp.trip, sent |-> 1, outcome |-> "Success",
          raised |-> FALSE]
    ELSE IF resp.kind = "duplicate"
    THEN [done |-> TRUE, ret |-> Some(DUPLICATE_TRIP), sent |-> 1,
          outcome |-> "Duplicate", raised |-> FALSE]
    ELSE IF resp.kind \in {"error", "failed"}
    THEN [done |-> TRUE, ret |-> None, sent |-> 1, outcome |-> "Error",
          raised |-> FALSE]
    ELSE IF resp.kind = "nonobject"
    THEN [done |-> TRUE, ret |-> None, sent |-> 1, outcome |-> "Raised",
          raised |-> TRUE]
    ELSE [done |-> FALSE, ret |-> None, sent |-> 1, outcome |-> "Processing",
          raised |-> FALSE]

\* The condition of that while loop.
BeforeDeadline(t, cfg) == t < cfg.poll_timeout

\* upload_photo, wrapped in the try of upload_media_for_trip: whether it
\* counted as a success, and what it sent.
upload_photo(token, cfg, exists, authResp, resp) ==
    LET a == ensure_auth(token, cfg, authResp)
        R(ok, n) ==
            [ token |-> a.token, authSent |-> a.sent, authRaised |-> a.raised,
              photoSent |-> n, ok |-> ok ]
    IN  IF ~exists
        THEN [ token |-> token, authSent |-> 0, authRaised |-> FALSE,
               photoSent |-> 0, ok |-> FALSE ]
        ELSE IF a.raised THEN R(FALSE, 0)
        ELSE IF cfg.dry_run THEN R(TRUE, 0)
        ELSE R(resp = "ok", 1)

\* ------------------------------------------------------------------- main
\* MainBranch without the test of already_uploaded.
MainBranch_NoLedgerCheck(act_id, cfg, uploaded, meta) ==
    IF cfg.target_ids # {} /\ act_id \notin cfg.target_ids THEN "filtered"
    ELSE IF act_id \notin DOMAIN meta THEN "nometa"
    ELSE "upload"

\* What the body of main's for loop does with a file before any upload.
MainBranch(act_id, cfg, uploaded, meta) ==
    IF cfg.target_ids # {} /\ act_id \notin cfg.target_ids THEN "filtered"
    ELSE IF ~cfg.force /\ act_id \in uploaded THEN "skip"
    ELSE IF act_id \notin DOMAIN meta THEN "nometa"
    ELSE "upload"

\* HandleBranch taking the media branch whatever the upload returned.
HandleBranch_MediaAlways(tid) ==
    IF tid = Some(DUPLICATE_TRIP) THEN "duplicate"
    ELSE "trip"

\* HandleBranch without the test of the duplicate sentinel.
HandleBranch_NoDuplicate(tid) ==
    IF tid # None THEN "trip"
    ELSE "none"

\* What it does with the value upload_trip_from_file returned.
HandleBranch(tid) ==
    IF tid = Some(DUPLICATE_TRIP) THEN "duplicate"
    ELSE IF tid # None THEN "trip"
    ELSE "none"

\* RecordsTrip with the comparison to the dry-run sentinel inverted.
RecordsTrip_SentinelOnly(cfg, tid) == ~cfg.dry_run /\ tid = Some(DRY_RUN_TRIP)

\* Whether the duplicate branch, and the trip branch, append to the ledger.
RecordsDuplicate(cfg) == ~cfg.dry_run
RecordsTrip(cfg, tid) == ~cfg.dry_run /\ tid # Some(DRY_RUN_TRIP)

\* ExitStatus counting nothing as a failure.
ExitStatus_AlwaysZero(errs) == 0

\* main's return value after the loop.
ExitStatus(errs) == IF errs = 0 THEN 0 ELSE 1

CurFile == files[idx]
CurId == infer_activity_id_from_filename(CurFile)
InLoop == pc = "loop" /\ idx <= Len(files)

\* The per-activity variables as a new iteration finds them (the locals of
\* the calls of the previous iteration are gone).
FreshActivity ==
    /\ trip_id' = None
    /\ elapsed' = 0 /\ poll_count' = 0 /\ last_response' = "none"
    /\ media_list' = <<>> /\ media_idx' = 0 /\ photo_success' = 0
    /\ tripReqs' = 0 /\ photoReqs' = 0

\* The end of an iteration of main's for loop.
NextFile ==
    /\ idx' = idx + 1
    /\ pc' = "loop"
    /\ FreshActivity

\* main up to the loop, the API key missing.
Main_NoApiKey ==
    /\ pc = "idle" /\ runsLeft > 0
    /\ runsLeft' = runsLeft - 1
    /\ exit_code' = Some(2)
    /\ pc' = "exit"
    /\ ledgerAtStart' = ledgerFile
    /\ \E cfg \in Configs :
        /\ ~cfg.api_key
        /\ config' = cfg
    /\ UNCHANGED <<world, ledgerFile, auth_token, activity_meta, already_uploaded,
                   files, idx, counters, trip_id, pollVars, mediaVars, outcome,
                   netIds, authHist, tripReqs, photoReqs, handledRun, handledEver>>

\* main up to the loop, the API key set.
Main_Start ==
    /\ pc = "idle" /\ runsLeft > 0
    /\ runsLeft' = runsLeft - 1
    /\ activity_meta' = load_activity_metadata(csvFile)
    /\ already_uploaded' = load_uploaded_set(ledgerFile)
    /\ files' = discover_activity_files(dirEntries)
    /\ IF files' = <<>>
       THEN exit_code' = Some(0) /\ pc' = "exit" /\ idx' = 0
       ELSE exit_code' = None /\ pc' = "loop" /\ idx' = 1
    /\ ledgerAtStart' = ledgerFile
    /\ \E cfg \in Configs :
        /\ cfg.api_key
        /\ config' = cfg
        /\ auth_token' = cfg.auth_token
    /\ UNCHANGED <<world, ledgerFile, counters, trip_id, pollVars, mediaVars, outcome,
                   netIds, authHist, tripReqs, photoReqs, handledRun, handledEver>>

\* The process ends; nothing but the files outlives it.
Process_Exit ==
    /\ pc = "exit"
    /\ pc' = "idle"
    /\ config' = NoConfig
    /\ auth_token' = NoToken
    /\ activity_meta' = <<>> /\ already_uploaded' = {} /\ files' = <<>>
    /\ idx' = 0
    /\ successes' = 0 /\ skipped' = 0 /\ errors' = 0
    /\ exit_code' = None
    /\ FreshActivity
    /\ outcome' = "none" /\ netIds' = {}
    /\ authReqs' = 0 /\ authOks' = 0
    /\ handledRun' = {}
    /\ handledEver' = IF config.dry_run \/ config.force THEN handledEver
                       ELSE handledEver \cup handledRun
    /\ UNCHANGED <<world, ledgerFile, runsLeft, ledgerAtStart>>

\* The allow-list excludes the file: continue.
Loop_Filtered ==
    /\ InLoop
    /\ MainBranch(CurId, config, already_uploaded, activity_meta) = "filtered"
    /\ NextFile
    /\ outcome' = "Filtered"
    /\ UNCHANGED <<world, ledgerFile, mainVars, auth_token, counters, exit_code,
                   netIds, authHist, runHist, handledRun>>

\* The identifier is in already_uploaded and --force is absent.
Loop_Skip ==
    /\ InLoop
    /\ MainBranch(CurId, config, already_uploaded, activity_meta) = "skip"
    /\ skipped' = skipped + 1
    /\ NextFile
    /\ outcome' = "AlreadyUploaded"
    /\ UNCHANGED <<world, ledgerFile, mainVars, auth_token, successes, errors,
                   exit_code, netIds, authHist, runHist, handledRun>>

\* Loop_NoMeta counting the file without metadata as an error.
Loop_NoMeta_CountsError ==
    /\ InLoop
    /\ MainBranch(CurId, config, already_uploaded, activity_meta) = "nometa"
    /\ errors' = errors + 1
    /\ NextFile
    /\ outcome' = "NoMetadata"
    /\ UNCHANGED <<world, ledgerFile, mainVars, auth_token, successes, skipped,
                   exit_code, netIds, authHist, runHist, handledRun>>

\* No row of the CSV is indexed under the identifier.
Loop_NoMeta ==
    /\ InLoop
    /\ MainBranch(CurId, config, already_uploaded, activity_meta) = "nometa"
    /\ skipped' = skipped + 1
    /\ NextFile
    /\ outcome' = "NoMetadata"
    /\ UNCHANGED <<world, ledgerFile, mainVars, auth_token, successes, errors,
                   exit_code, netIds, authHist, runHist, handledRun>>

\* The call of upload_trip_from_file, until it raises (main's except clause
\* counts the error), returns without polling, or starts to poll.
Loop_Upload ==
    /\ InLoop
    /\ MainBranch(CurId, config, already_uploaded, activity_meta) = "upload"
    /\ \E authResp \in AuthAnswers(auth_token, config), readOk \in BOOLEAN,
          upResp \in UploadResponses :
        LET u == upload_trip_from_file(auth_token, config, authResp, readOk, upResp)
        IN  /\ auth_token' = u.token
            /\ authReqs' = authReqs + u.authSent
            /\ authOks' = authOks + (IF u.authSent = 1 /\ ~u.authRaised THEN 1 ELSE 0)
            /\ netIds' = IF u.authSent + u.tripSent > 0 THEN netIds \cup {CurId} ELSE netIds
            /\ CASE u.kind = "raise" ->
                      /\ errors' = errors + 1
                      /\ idx' = idx + 1
                      /\ pc' = "loop"
                      /\ outcome' = "Raised"
                      /\ trip_id' = None
                      /\ tripReqs' = u.tripSent
                 [] u.kind = "return" ->
                      /\ pc' = "handle"
                      /\ trip_id' = u.ret
                      /\ tripReqs' = u.tripSent
                      /\ outcome' = IF config.dry_run THEN "DryRun"
                                    ELSE IF upResp = "unauthorized" THEN "TokenRejected"
                                    ELSE "UploadFailed"
                      /\ UNCHANGED <<errors, idx>>
                 [] u.kind = "poll" ->
                      /\ pc' = "poll"
                      /\ trip_id' = None
                      /\ tripReqs' = u.tripSent
                      /\ outcome' = "Processing"
                      /\ UNCHANGED <<errors, idx>>
    /\ elapsed' = 0 /\ poll_count' = 0 /\ last_response' = "none"
    /\ media_list' = <<>> /\ media_idx' = 0 /\ photo_success' = 0
    /\ photoReqs' = 0
    /\ UNCHANGED <<world, ledgerFile, mainVars, successes, skipped, exit_code,
                   runHist, handledRun>>

\* One iteration of the polling loop, begun before the deadline. When the
\* iteration raises, the exception leaves upload_trip_from_file and main's
\* except clause counts the error.
PollTick ==
    /\ pc = "poll"
    /\ BeforeDeadline(elapsed, config)
    /\ \E resp \in StatusResponses :
        LET r == poll_iteration(config, resp)
        IN  /\ netIds' = IF r.sent > 0 THEN netIds \cup {CurId} ELSE netIds
            /\ IF r.raised
               THEN /\ errors' = errors + 1
                    /\ outcome' = r.outcome
                    /\ NextFile
                    /\ UNCHANGED handledRun
               ELSE /\ poll_count' = poll_count + r.sent
                    /\ last_response' = resp.kind
                    /\ IF r.done
                       THEN /\ trip_id' = r.ret
                            /\ elapsed' = elapsed
                            /\ outcome' = r.outcome
                            /\ pc' = "handle"
                            /\ handledRun' = IF r.outcome \in {"Success", "Duplicate"}
                                             THEN handledRun \cup {CurId}
                                             ELSE handledRun
                       ELSE /\ \E d \in 1..MaxTickTime :
                                elapsed' = Min(elapsed + d, config.poll_timeout)
                            /\ UNCHANGED <<trip_id, outcome, pc, handledRun>>
                    /\ UNCHANGED <<idx, errors, mediaVars, tripReqs, photoReqs>>
    /\ UNCHANGED <<world, ledgerFile, mainVars, auth_token, successes, skipped,
                   exit_code, authHist, runHist>>

\* The deadline has passed: poll_task_for_trip returns None.
PollTimedOut ==
    /\ pc = "poll"
    /\ ~BeforeDeadline(elapsed, config)
    /\ trip_id' = None
    /\ outcome' = "TimedOut"
    /\ pc' = "handle"
    /\ UNCHANGED <<world, ledgerFile, mainVars, auth_token, idx, counters, exit_code,
                   pollVars, mediaVars, netIds, authHist, tripReqs, photoReqs,
                   runHist, handledRun>>

\* trip_id == DUPLICATE_TRIP
Handle_Duplicate ==
    /\ pc = "handle"
    /\ HandleBranch(trip_id) = "duplicate"
    /\ ledgerFile' = IF RecordsDuplicate(config)
                     THEN append_uploaded(ledgerFile, CurId)
                     ELSE ledgerFile
    /\ skipped' = skipped + 1
    /\ NextFile
    /\ UNCHANGED <<world, mainVars, auth_token, successes, errors, exit_code,
                   outcome, netIds, authHist, runHist, handledRun>>

\* trip_id is not None: upload_media_for_trip is called with the media that exist.
Handle_Trip ==
    /\ pc = "handle"
    /\ HandleBranch(trip_id) = "trip"
    /\ media_list' = SelectSeq(activity_meta[CurId].media_paths,
                               LAMBDA p : p \in ExistingMedia)
    /\ media_idx' = 1
    /\ photo_success' = 0
    /\ pc' = "media"
    /\ UNCHANGED <<world, ledgerFile, mainVars, auth_token, idx, counters, exit_code,
                   trip_id, pollVars, outcome, netIds, authHist, tripReqs, photoReqs,
                   runHist, handledRun>>

\* Handle_None recording the identifier although the upload failed.
Handle_None_Recording ==
    /\ pc = "handle"
    /\ HandleBranch(trip_id) = "none"
    /\ ledgerFile' = append_uploaded(ledgerFile, CurId)
    /\ errors' = errors + 1
    /\ NextFile
    /\ UNCHANGED <<world, mainVars, auth_token, successes, skipped,
                   exit_code, outcome, netIds, authHist, runHist, handledRun>>

\* trip_id is None
Handle_None ==
    /\ pc = "handle"
    /\ HandleBranch(trip_id) = "none"
    /\ errors' = errors + 1
    /\ NextFile
    /\ UNCHANGED <<world, ledgerFile, mainVars, auth_token, successes, skipped,
                   exit_code, outcome, netIds, authHist, runHist, handledRun>>

\* One iteration of the loop of upload_media_for_trip.
UploadPhoto ==
    /\ pc = "media"
    /\ media_idx <= Len(media_list)
    /\ \E authResp \in AuthAnswers(auth_token, config), resp \in PhotoResponses :
        LET r == upload_photo(auth_token, config, media_list[media_idx] \in ExistingMedia,
                              authResp, resp)
        IN  /\ auth_token' = r.token
            /\ authReqs' = authReqs + r.authSent
            /\ authOks' = authOks + (IF r.authSent = 1 /\ ~r.authRaised THEN 1 ELSE 0)
            /\ photoReqs' = photoReqs + r.photoSent
            /\ netIds' = IF r.authSent + r.photoSent > 0 THEN netIds \cup {CurId}
                         ELSE netIds
            /\ photo_success' = photo_success + (IF r.ok THEN 1 ELSE 0)
    /\ media_idx' = media_idx + 1
    /\ UNCHANGED <<world, ledgerFile, mainVars, idx, counters, exit_code, pc, trip_id,
                   pollVars, media_list, outcome, tripReqs, runHist, handledRun>>

\* Media_Done treating a failed media upload as a failure of the activity.
Media_Done_AllOrNothing ==
    /\ pc = "media"
    /\ media_idx > Len(media_list)
    /\ IF photo_success = Len(media_list)
       THEN /\ ledgerFile' = IF RecordsTrip(config, trip_id)
                             THEN append_uploaded(ledgerFile, CurId)
                             ELSE ledgerFile
            /\ successes' = successes + 1
            /\ errors' = errors
       ELSE /\ ledgerFile' = ledgerFile
            /\ successes' = successes
            /\ errors' = errors + 1
    /\ NextFile
    /\ UNCHANGED <<world, mainVars, auth_token, skipped, exit_code,
                   outcome, netIds, authHist, runHist, handledRun>>

\* upload_media_for_trip has returned: the ledger write and the success count.
Media_Done ==
    /\ pc = "media"
    /\ media_idx > Len(media_list)
    /\ ledgerFile' = IF RecordsTrip(config, trip_id)
                     THEN append_uploaded(ledgerFile, CurId)
                     ELSE ledgerFile
    /\ successes' = successes + 1
    /\ NextFile
    /\ UNCHANGED <<world, mainVars, auth_token, skipped, errors, exit_code,
                   outcome, netIds, authHist, runHist, handledRun>>

\* The loop is over: the summary and the return value.
Loop_End ==
    /\ pc = "loop"
    /\ idx > Len(files)
    /\ exit_code' = Some(ExitStatus(errors))
    /\ pc' = "exit"
    /\ UNCHANGED <<world, ledgerFile, mainVars, auth_token, idx, counters, trip_id,
                   pollVars, mediaVars, outcome, netIds, authHist, tripReqs,
                   photoReqs, runHist, handledRun>>

Next ==
    \/ Main_NoApiKey
    \/ Main_Start
    \/ Process_Exit
    \/ Loop_Filtered
    \/ Loop_Skip
    \/ Loop_NoMeta
    \/ Loop_Upload
    \/ PollTick
    \/ PollTimedOut
    \/ Handle_Duplicate
    \/ Handle_Trip
    \/ Handle_None
    \/ UploadPhoto
    \/ Media_Done
    \/ Loop_End

Spec == Init /\ [][Next]_vars

SpecRuns == InitRuns /\ [][Next]_vars

\* The steps of a run that has started. The process is one thread that
\* nothing suspends: its requests have a timeout and its sleep is finite, so
\* whenever it has a next step it takes it.
RunStep ==
    \/ Loop_Filtered
    \/ Loop_Skip
    \/ Loop_NoMeta
    \/ Loop_Upload
    \/ PollTick
    \/ PollTimedOut
    \/ Handle_Duplicate
    \/ Handle_Trip
    \/ Handle_None
    \/ UploadPhoto
    \/ Media_Done
    \/ Loop_End

\* One run whose steps are taken.
SpecLive == Init /\ [][Next]_vars /\ WF_vars(RunStep)

\* ------------------------------------------------- the functions on their own
\* load_activity_metadata over an activities.csv, one row of its loop at a
\* step, and infer_activity_id_from_filename over a file name; main is idle.
mainState ==
    << ledgerFile, runsLeft, config, auth_token, activity_meta, already_uploaded,
       files, idx, successes, skipped, errors, exit_code, pc, trip_id, elapsed,
       poll_count, last_response, media_list, media_idx, photo_success, outcome,
       netIds, authReqs, authOks, tripReqs, photoReqs, ledgerAtStart, handledRun,
       handledEver >>

InitFunctions ==
    /\ dirEntries = {}
    /\ ledgerFile = <<>> /\ ledgerAtStart = <<>>
    /\ runsLeft = 0
    /\ Idle
    /\ row_idx = 0 /\ mapping = <<>> /\ inferred_id = None
    /\ \/ csvFile \in CsvFiles /\ filename \in DiskNames
       \/ csvFile = <<>> /\ filename \in Names

\* One iteration of the loop over the rows.
Index_Row ==
    /\ row_idx < Len(csvFile)
    /\ mapping' = IndexRow(mapping, csvFile[row_idx + 1])
    /\ row_idx' = row_idx + 1
    /\ UNCHANGED <<dirEntries, csvFile, filename, inferred_id, mainState>>

\* The call of infer_activity_id_from_filename.
Infer_Id ==
    /\ inferred_id = None
    /\ inferred_id' = Some(infer_activity_id_from_filename(filename))
    /\ UNCHANGED <<dirEntries, csvFile, row_idx, mapping, filename, mainState>>

NextFunctions ==
    \/ Index_Row
    \/ Infer_Id

SpecFunctions == InitFunctions /\ [][NextFunctions]_vars

\* ------------------------------------------------------------------ claims
TerminalKinds == {"success_trip", "duplicate", "error", "failed"}
InRun == pc # "idle"
AtBoundary == pc \in {"loop", "exit"}
AuthFailed == authReqs > authOks
MissingCreds == config.auth_token = NoToken /\ ~config.email_password
PassesFilter == config.target_ids = {} \/ CurId \in config.target_ids
\* A step in which a status request was answered.
Tick == pc = "poll" /\ poll_count' = poll_count + 1

\* C1: in a run without --dry-run the identifiers written in the ledger file
\* are, at every loop boundary, exactly those it held at startup and those
\* whose poll ended in Success or Duplicate in this run (and never more than
\* these in between); no step removes or changes a line of the file.
C1_LedgerInvariant ==
    /\ [](InRun /\ ~config.dry_run =>
            /\ Range(ledgerFile) \subseteq Range(ledgerAtStart) \cup handledRun
            /\ AtBoundary => Range(ledgerFile) = Range(ledgerAtStart) \cup handledRun)
    /\ [][\A i \in DOMAIN ledgerFile :
            i \in DOMAIN ledgerFile' /\ ledgerFile'[i] = ledgerFile[i]]_vars

\* A run that found a ledger has added an identifier to it and counted an error.
C1_Witness ==
    /\ pc = "exit" /\ ~config.dry_run
    /\ ledgerAtStart # <<>>
    /\ handledRun \ Range(ledgerAtStart) # {}
    /\ errors > 0

\* C2: in a run without --dry-run and --force no request is sent for an
\* identifier that an earlier such run ended in Success or Duplicate.
C2_NoSecondUpload ==
    (~config.dry_run /\ ~config.force) => netIds \cap handledEver = {}

\* C3 as stated: a file whose identifier is in the ledger is, without --force,
\* counted as skipped and causes no request.
C3_Original ==
    [][(InLoop /\ ~config.force /\ CurId \in already_uploaded) =>
            (skipped' = skipped + 1 /\ netIds' = netIds)]_vars

\* C3, amended: without --force no request is ever sent for an identifier of
\* already_uploaded; the iteration of such a file sends nothing, writes
\* nothing, and counts it once as skipped when it passes the allow-list and
\* not at all when the allow-list excludes it.
C3_SkipUploaded ==
    /\ [](InRun /\ ~config.force => netIds \cap already_uploaded = {})
    /\ [][(InLoop /\ ~config.force /\ CurId \in already_uploaded) =>
            /\ netIds' = netIds /\ authReqs' = authReqs
            /\ tripReqs' = 0 /\ poll_count' = 0 /\ photoReqs' = 0
            /\ ledgerFile' = ledgerFile
            /\ pc' = "loop" /\ idx' = idx + 1
            /\ successes' = successes /\ errors' = errors
            /\ skipped' = IF PassesFilter THEN skipped + 1 ELSE skipped]_vars

\* A file found in the ledger has been skipped, after an upload in the same run.
C3_Witness ==
    /\ pc = "loop" /\ outcome = "AlreadyUploaded" /\ ~config.force
    /\ skipped = 1 /\ netIds # {}

\* C4: a status response with response_code duplicate ends the poll in
\* Duplicate; main then (no dry run) appends the identifier to the ledger,
\* goes to the next file without a media request, and counts one skip and no
\* error.
C4_Duplicate ==
    /\ [][(Tick /\ last_response' = "duplicate") =>
            (pc' = "handle" /\ outcome' = "Duplicate"
                /\ trip_id' = Some(DUPLICATE_TRIP))]_vars
    /\ [][(pc = "handle" /\ outcome = "Duplicate" /\ ~config.dry_run) =>
            /\ ledgerFile' = Append(ledgerFile, CurId)
            /\ pc' = "loop" /\ photoReqs = 0 /\ photoReqs' = 0
            /\ skipped' = skipped + 1
            /\ errors' = errors /\ successes' = successes]_vars

\* A duplicate has been handled.
C4_Witness ==
    /\ pc = "loop" /\ outcome = "Duplicate"
    /\ skipped > 0 /\ Len(ledgerFile) = Len(ledgerAtStart) + 1

\* C5: a poll that ends without a terminal response ends in TimedOut, at or
\* after the deadline; main then leaves the ledger alone, sends no media
\* request and counts exactly one error.
C5_TimedOut ==
    /\ [][(pc = "poll" /\ pc' = "handle" /\ last_response' \notin TerminalKinds) =>
            (outcome' = "TimedOut" /\ trip_id' = None
                /\ ~BeforeDeadline(elapsed, config))]_vars
    /\ [][(pc = "handle" /\ outcome = "TimedOut") =>
            /\ ledgerFile' = ledgerFile
            /\ pc' = "loop" /\ photoReqs = 0 /\ photoReqs' = 0
            /\ errors' = errors + 1
            /\ successes' = successes /\ skipped' = skipped]_vars

\* A timed-out activity has been counted.
C5_Witness ==
    /\ pc = "loop" /\ outcome = "TimedOut"
    /\ errors = 1 /\ ledgerFile = ledgerAtStart /\ netIds # {}

\* C6: a dry run sends no request of any kind and leaves the ledger file as
\* it found it.
C6_DryRun ==
    (InRun /\ config.dry_run) =>
        /\ netIds = {} /\ authReqs = 0 /\ tripReqs = 0
        /\ poll_count = 0 /\ photoReqs = 0
        /\ ledgerFile = ledgerAtStart

\* A dry run has taken an activity with media through the whole pipeline.
C6_Witness ==
    /\ pc = "exit" /\ config.dry_run
    /\ successes > 0 /\ ledgerAtStart # <<>>

\* C7: a response with response_code success and no trip leaves the poll in
\* Processing; when the first response is such a one and the second names a
\* trip, the poll ends in Success with that trip after two status requests.
C7_SuccessWithoutTrip ==
    /\ [][(Tick /\ last_response' = "success_notrip") =>
            (pc' = "poll" /\ outcome' = "Processing" /\ trip_id' = None)]_vars
    /\ [][(pc = "poll" /\ poll_count = 1 /\ last_response = "success_notrip"
                /\ poll_count' # poll_count /\ last_response' = "success_trip") =>
            (pc' = "handle" /\ outcome' = "Success" /\ poll_count' = 2
                /\ trip_id' \in {Some(t) : t \in TripIds})]_vars

\* The first response was success without a trip, and a second tick can begin.
C7_Witness ==
    /\ pc = "poll" /\ poll_count = 1 /\ last_response = "success_notrip"
    /\ BeforeDeadline(elapsed, config)

C9_Original ==
    [][(AuthFailed /\ pc = "loop") =>
            (idx' = idx /\ authReqs' = authReqs /\ tripReqs' = 0)]_vars

\* C9, amended: a failed authentication request is an error of the activity
\* being uploaded only: no token is held, one error is counted, nothing else
\* is sent for the activity, the ledger is not written and the loop goes on;
\* the run ends with exit status 1.
C9_AuthFailureIsLocal ==
    /\ [][(authReqs' = authReqs + 1 /\ authOks' = authOks) =>
            /\ auth_token' = NoToken
            /\ errors' = errors + 1
            /\ successes' = successes /\ skipped' = skipped
            /\ tripReqs' = 0 /\ poll_count' = 0 /\ photoReqs' = 0
            /\ ledgerFile' = ledgerFile
            /\ pc' = "loop" /\ idx' = idx + 1]_vars
    /\ [](pc = "exit" /\ AuthFailed => exit_code = Some(1))

\* After a failed authentication the next activity authenticated and succeeded.
C9_Witness ==
    /\ pc = "exit" /\ authReqs = 2 /\ authOks = 1
    /\ errors = 1 /\ successes = 1

\* C10 as stated: with the API key missing, or with neither token nor
\* credentials, the run ends with a non-zero status before any file is
\* examined or counted.
C10_Original ==
    (InRun /\ (~config.api_key \/ MissingCreds)) =>
        /\ pc = "exit" /\ exit_code # Some(0)
        /\ idx = 0 /\ successes + skipped + errors = 0

\* C10, amended: a missing API key ends the run with status 2 before anything
\* is read. Missing credentials are found by ensure_auth only: the files are
\* examined, each activity that reaches the upload is counted as an error
\* without any request or ledger write, and the exit status is non-zero
\* exactly when there was such an activity.
C10_MissingConfig ==
    /\ []((InRun /\ ~config.api_key) =>
            /\ pc = "exit" /\ exit_code = Some(2)
            /\ files = <<>> /\ idx = 0
            /\ successes + skipped + errors = 0
            /\ netIds = {} /\ ledgerFile = ledgerAtStart)
    /\ []((InRun /\ config.api_key /\ MissingCreds) =>
            /\ AtBoundary
            /\ auth_token = NoToken /\ netIds = {} /\ authReqs = 0
            /\ successes = 0 /\ ledgerFile = ledgerAtStart
            /\ pc = "exit" => exit_code = Some(IF errors = 0 THEN 0 ELSE 1))
    /\ [][(InLoop /\ MissingCreds
                /\ MainBranch(CurId, config, already_uploaded, activity_meta) = "upload") =>
            (errors' = errors + 1 /\ idx' = idx + 1)]_vars

\* A run without credentials has skipped one file and failed on another.
C10_Witness ==
    /\ pc = "exit" /\ config.api_key /\ MissingCreds
    /\ skipped = 1 /\ errors = 1 /\ exit_code = Some(1)

\* Outcomes of a trip submission that was answered but queued no task.
SubmissionFailed == outcome \in {"UploadFailed", "TokenRejected"}
\* Outcomes of an activity that main counts as an error.
ErrorOutcomes == {"Raised", "UploadFailed", "TokenRejected", "Error", "TimedOut"}
\* A step that ends the processing of a file.
EndsActivity == InRun /\ idx' = idx + 1

\* C11: a run that went through its files exits with status 0 or 1, and 1
\* exactly when it counted an error; an error is counted exactly by the steps
\* that end an activity whose upload raised, failed, ended in Error or timed
\* out; a step that counts a skip (already uploaded, no metadata, duplicate)
\* counts no error.
C11_ExitStatus ==
    /\ []((pc = "exit" /\ config.api_key) =>
            /\ exit_code \in {Some(0), Some(1)}
            /\ exit_code = Some(1) <=> errors > 0)
    /\ [][EndsActivity =>
            /\ errors' \in {errors, errors + 1}
            /\ errors' = errors + 1 <=> outcome' \in ErrorOutcomes]_vars
    /\ [][(InRun /\ pc # "exit" /\ ~EndsActivity) => errors' = errors]_vars
    /\ [][(pc # "exit" /\ skipped' # skipped) => errors' = errors]_vars

\* A run with one duplicate and one failed activity has ended with status 1.
C11_Witness ==
    /\ pc = "exit" /\ exit_code = Some(1)
    /\ errors = 1 /\ skipped = 1 /\ handledRun # {} /\ successes = 0

\* C12: after a poll ended in Success the media loop makes one attempt for
\* each media path of the row that exists (one request each when not a dry
\* run), whether or not earlier attempts succeeded; when the loop is over the
\* activity is counted as a success, never as an error, and its identifier is
\* appended to the ledger unless the run is a dry run.
C12_MediaBestEffort ==
    /\ [](pc = "media" =>
            /\ media_list = SelectSeq(activity_meta[CurId].media_paths,
                                      LAMBDA p : p \in ExistingMedia)
            /\ media_idx \in 1..(Len(media_list) + 1)
            /\ photo_success <= media_idx - 1
            /\ ~config.dry_run => photoReqs = media_idx - 1)
    /\ [][(pc = "media" /\ media_idx <= Len(media_list)) =>
            (pc' = "media" /\ media_idx' = media_idx + 1)]_vars
    /\ [][(pc = "media" /\ pc' # "media") =>
            /\ media_idx = Len(media_list) + 1
            /\ successes' = successes + 1 /\ errors' = errors /\ skipped' = skipped
            /\ ledgerFile' = IF config.dry_run THEN ledgerFile
                             ELSE append_uploaded(ledgerFile, CurId)
            /\ pc' = "loop" /\ idx' = idx + 1]_vars

\* Both media of the activity got their request and both uploads failed.
C12_Witness ==
    /\ pc = "media" /\ outcome = "Success" /\ ~config.dry_run
    /\ Len(media_list) = 2 /\ media_idx = 3
    /\ photoReqs = 2 /\ photo_success = 0

\* C13: a trip submission that was answered but queued no task (status not
\* 2xx, body not JSON, no task identifier) sends no status and no media
\* request; the step that follows counts one error, leaves the ledger
\* untouched and moves to the next file.
C13_FailedSubmission ==
    /\ []((InRun /\ ~config.dry_run /\ auth_token # NoToken) =>
            \A upResp \in {"non2xx", "unauthorized", "nonjson", "no_task"} :
                LET u == upload_trip_from_file(auth_token, config, "ok", TRUE, upResp)
                IN  u.kind = "return" /\ u.ret = None /\ u.tripSent = 1)
    /\ []((pc = "handle" /\ SubmissionFailed) =>
            /\ tripReqs = 1 /\ poll_count = 0 /\ photoReqs = 0
            /\ trip_id = None)
    /\ [][(pc = "handle" /\ SubmissionFailed) =>
            /\ errors' = errors + 1
            /\ successes' = successes /\ skipped' = skipped
            /\ ledgerFile' = ledgerFile
            /\ poll_count' = 0 /\ photoReqs' = 0
            /\ pc' = "loop" /\ idx' = idx + 1]_vars

\* After a failed submission the next file was uploaded with success.
C13_Witness ==
    /\ pc = "exit" /\ errors = 1 /\ successes = 1
    /\ authReqs = 1 /\ authOks = 1 /\ ledgerFile # ledgerAtStart

\* C14: once a trip submission was refused as unauthorized, the next trip
\* submission of a run that has an email and a password is preceded by an
\* authentication request and carries another token.
C14_TokenRefreshed ==
    [][(pc = "loop" /\ outcome = "TokenRejected" /\ config.email_password
            /\ config.auth_token = ENV_TOKEN /\ tripReqs' = 1) =>
        (authReqs' = authReqs + 1 /\ auth_token' # ENV_TOKEN)]_vars

\* The record load_activity_metadata builds of a row.
RecordOf(row) == [activity_id |-> Strip(row.id), media_paths |-> row.media]
\* The file-stem key of a row, <<>> when it has none.
StemOf(row) ==
    LET base == BaseName(Strip(row.filename))
    IN  DropLast(base, Len(FirstExt(base, DoubleExts \o SingleExts, 1)))
\* The loop over the rows has ended.
Indexed == row_idx = Len(csvFile)

\* C15: when all rows are indexed, every row with a non-empty identifier is
\* found under that identifier: the lookup gives the record of that row.
C15_IndexedUnderOwnId ==
    Indexed =>
        \A i \in DOMAIN csvFile :
            Strip(csvFile[i].id) # <<>> =>
                /\ Strip(csvFile[i].id) \in DOMAIN mapping
                /\ mapping[Strip(csvFile[i].id)] = RecordOf(csvFile[i])

\* C16: a step of the loop over the rows never changes or removes a key the
\* mapping holds; the keys it adds are among the identifier and the file stem
\* of its row and map to the record of that row; and with the single row
\* (42, "42.fit.gz") the identifier inferred from the disk file "42.fit" is
\* "42" and resolves to that row.
C16_InsertIfAbsent ==
    /\ [][\A k \in DOMAIN mapping : k \in DOMAIN mapping' /\ mapping'[k] = mapping[k]]_vars
    /\ [][row_idx' = row_idx + 1 =>
            \A k \in DOMAIN mapping' \ DOMAIN mapping :
                /\ k \in {Strip(csvFile[row_idx'].id), StemOf(csvFile[row_idx'])}
                /\ mapping'[k] = RecordOf(csvFile[row_idx'])]_vars
    /\ []((Indexed /\ csvFile = <<Row(Id42, Id42 \o FIT \o GZ, <<>>)>>
                /\ filename = Id42 \o FIT /\ inferred_id # None) =>
            /\ inferred_id = Some(Id42)
            /\ Id42 \in DOMAIN mapping
            /\ mapping[Id42] = RecordOf(csvFile[1]))

\* The second row has the file stem "42", which the first row mapped
\* already, and "42.fit" still resolves to the first row.
C16_Witness ==
    /\ Indexed /\ Len(csvFile) = 2
    /\ csvFile[1] = Row(Id42, Id42 \o FIT \o GZ, <<>>)
    /\ Strip(csvFile[2].id) = Id4 /\ StemOf(csvFile[2]) = Id42
    /\ filename = Id42 \o FIT /\ inferred_id = Some(Id42)
    /\ mapping[Id42] = RecordOf(csvFile[1])

\* C17: the inferred identifier is the file name without its double
\* extension when it ends in one; otherwise the file name without its single
\* extension when it ends in one; otherwise the file name.
C17_InferredId ==
    inferred_id # None =>
        LET id == inferred_id[1]
            doubles == {d \in Range(DoubleExts) : EndsWith(filename, d)}
            singles == {e \in Range(SingleExts) : EndsWith(filename, e)}
        IN  IF doubles # {} THEN \E d \in doubles : filename = id \o d
            ELSE IF singles # {} THEN \E e \in singles : filename = id \o e
            ELSE id = filename

\* Of "4.5.fit.fit" only the last extension was removed.
C17_Witness ==
    /\ filename = <<"4", ".", "5">> \o FIT \o FIT
    /\ inferred_id = Some(<<"4", ".", "5">> \o FIT)

\* C18: before the deadline the poller leaves Processing only on a duplicate
\* (Duplicate), on error or failed (Error) or on success with a trip
\* (Success); after any other answer it is still polling; and once it has
\* left, no status request is sent for the task.
C18_PollerTransitions ==
    /\ [][(pc = "poll" /\ BeforeDeadline(elapsed, config) /\ pc' # "poll") =>
            \/ outcome' = "Duplicate" /\ last_response' = "duplicate"
            \/ outcome' = "Error" /\ last_response' \in {"error", "failed"}
            \/ outcome' = "Success" /\ last_response' = "success_trip"]_vars
    /\ [][(Tick /\ last_response' \notin TerminalKinds) => pc' = "poll"]_vars
    /\ [][(pc \in {"handle", "media"} /\ idx' = idx) => poll_count' = poll_count]_vars

\* C19: a trip submission is sent only with a token held; a status request
\* only for a task the submission of the activity queued; a media request
\* only after the poll of the activity ended in Success with a trip; requests
\* are sent for the current file only, and (without an allow-list) every
\* file before it has been counted.
C19_Ordering ==
    /\ [][(pc = "loop" /\ tripReqs' = 1) =>
            (auth_token' # NoToken /\ poll_count' = 0 /\ photoReqs' = 0)]_vars
    /\ [](pc = "poll" => (tripReqs = 1 /\ auth_token # NoToken /\ photoReqs = 0))
    /\ [](poll_count > 0 => (tripReqs = 1 /\ pc \in {"poll", "handle", "media"}))
    /\ [](photoReqs > 0 =>
            /\ pc = "media" /\ outcome = "Success"
            /\ last_response = "success_trip" /\ poll_count > 0
            /\ trip_id \in {Some(t) : t \in TripIds})
    /\ [][(InRun /\ pc # "exit" /\ idx \in DOMAIN files) =>
            /\ netIds' \subseteq netIds \cup {CurId}
            /\ idx' \in {idx, idx + 1}
            /\ (authReqs' # authReqs \/ tripReqs' > tripReqs \/ poll_count' > poll_count
                    \/ photoReqs' > photoReqs) => CurId \in netIds']_vars
    /\ [][(InRun /\ pc # "exit" /\ idx \notin DOMAIN files) =>
            (netIds' = netIds /\ authReqs' = authReqs /\ pc' = "exit")]_vars
    /\ []((InRun /\ idx >= 1 /\ config.target_ids = {}) =>
            successes + skipped + errors = idx - 1)

\* The second file of a run is at its media after its own submission and
\* poll; the first file was counted.
C19_Witness ==
    /\ pc = "media" /\ idx = 2 /\ photoReqs = 1
    /\ tripReqs = 1 /\ poll_count = 2
    /\ successes + skipped + errors = 1

\* C20: in a dry run the call of ensure_auth made for an upload without a
\* token ends with the placeholder token and without a request, whatever the
\* credentials.
C20_DryRunAuth ==
    [][(InLoop /\ config.dry_run /\ auth_token = NoToken
            /\ MainBranch(CurId, config, already_uploaded, activity_meta) = "upload") =>
        (auth_token' = DUMMY_TOKEN /\ authReqs' = authReqs)]_vars

\* The outcomes the poller is said to end in.
PollOutcomes == {"Success", "Duplicate", "Error", "TimedOut"}
\* Every poll, of whichever file, leaves the polling loop.
PollTerminates ==
    \A i \in 1..MaxFiles : (pc = "poll" /\ idx = i) ~> ~(pc = "poll" /\ idx = i)
\* Every run that has started reaches the end of main.
RunTerminates == InRun ~> pc = "exit"

\* C21: every poll leaves the polling loop, and leaves it with one of
\* Success, Duplicate, Error and TimedOut as the outcome of the call,
\* whatever the status responses; and every run reaches its summary.
C21_PollingTerminates ==
    /\ [][(pc = "poll" /\ pc' # "poll") =>
            (pc' = "handle" /\ idx' = idx /\ outcome' \in PollOutcomes)]_vars
    /\ PollTerminates
    /\ RunTerminates

\* The identifiers this run has appended to the ledger file.
AppendedThisRun ==
    {ledgerFile[i] : i \in (Len(ledgerAtStart) + 1)..Len(ledgerFile)}

\* C22: in a run without --dry-run and --force, a file whose identifier this
\* run has already appended to the ledger is skipped: one skip is counted and
\* no request is sent for it.
C22_OncePerRun ==
    [][(InLoop /\ ~config.dry_run /\ ~config.force /\ PassesFilter
            /\ CurId \in AppendedThisRun) =>
        /\ skipped' = skipped + 1 /\ pc' = "loop" /\ idx' = idx + 1
        /\ netIds' = netIds /\ authReqs' = authReqs /\ tripReqs' = 0]_vars

\* Whether the i-th file passes the allow-list.
PassedFilter(i) ==
    config.target_ids = {} \/ infer_activity_id_from_filename(files[i]) \in config.target_ids
\* The files the loop is done with.
Processed == 1..(idx - 1)

\* C23: between two files and at the end, the three counters add up to the
\* number of files dealt with that passed the allow-list; a step that ends a
\* file increments the one counter of its outcome (successes for Success and
\* for a dry-run upload; skipped for already uploaded, no metadata and
\* Duplicate; errors for a failed submission, Error, TimedOut and an
\* exception) and none for a file the allow-list excludes; no other step of
\* the run changes a counter.
C23_CountersPartition ==
    /\ []((InRun /\ AtBoundary) =>
            successes + skipped + errors
                = Cardinality({i \in Processed : PassedFilter(i)}))
    /\ [][EndsActivity =>
            IF outcome' \in {"Success", "DryRun"}
            THEN successes' = successes + 1 /\ skipped' = skipped /\ errors' = errors
            ELSE IF outcome' \in {"AlreadyUploaded", "NoMetadata", "Duplicate"}
            THEN skipped' = skipped + 1 /\ successes' = successes /\ errors' = errors
            ELSE IF outcome' \in ErrorOutcomes
            THEN errors' = errors + 1 /\ successes' = successes /\ skipped' = skipped
            ELSE /\ outcome' = "Filtered" /\ ~PassedFilter(idx)
                 /\ UNCHANGED counters]_vars
    /\ [][(InRun /\ pc # "exit" /\ ~EndsActivity) => UNCHANGED counters]_vars

\* A run over two files has ended: the one the allow-list excludes is in no
\* counter, the other is the one success.
C23_Witness ==
    /\ pc = "exit" /\ Len(files) = 2 /\ idx = 3
    /\ config.target_ids # {} /\ ~config.dry_run
    /\ Cardinality({i \in Processed : PassedFilter(i)}) = 1
    /\ successes = 1 /\ skipped = 0 /\ errors = 0

====
